---- MODULE Spec2Model ----
(***************************************************************************)
(* A model of energize.py: range resolution and compound time filtering of *)
(* a time-indexed dataset, grouping of readings into contiguous runs,      *)
(* trapezoidal energy integration, log-normal fitting with quantile based  *)
(* sample adjustment, and index intersection.                              *)
(*                                                                         *)
(* A dataset (pandas Series with a DatetimeIndex) is a sequence of rows    *)
(* [t |-> timestamp, v |-> value].  Timestamps are integers counting ticks *)
(* from the epoch of the model; an hour is TicksPerHour ticks.             *)
(***************************************************************************)
EXTENDS Integers, Sequences, FiniteSets, TLC

VARIABLES data, npDivide, stdout, op, args, result

vars == <<data, npDivide, stdout, op, args, result>>

(***************************************************************************)
(* Bounds of the model.                                                    *)
(***************************************************************************)
TicksPerHour == 2
MaxLen == 4
MaxTime == 4
MaxVal == 1
MaxThreshold == 1
MaxDay == 1
FilterLen == 2
FitLen == 3
MaxExp == 2
MaxBuffer == 1

(* Python's None, encoded outside the non-negative timestamp domain. *)
None == -1

(***************************************************************************)
(* Generic helpers on sequences.                                           *)
(***************************************************************************)
RECURSIVE SumSeq(_)
SumSeq(s) == IF s = <<>> THEN 0 ELSE Head(s) + SumSeq(Tail(s))

Range(s) == {s[i] : i \in DOMAIN s}

(* The rows of s at the positions satisfying keep, in the order of s. *)
RECURSIVE TakeWhere(_, _, _)
TakeWhere(s, keep, i) ==
    IF i > Len(s) THEN <<>>
    ELSE (IF keep[i] THEN <<s[i]>> ELSE <<>>) \o TakeWhere(s, keep, i + 1)

(* The elements of a finite set of integers in ascending order. *)
RECURSIVE SetToSortedSeq(_)
SetToSortedSeq(S) ==
    IF S = {} THEN <<>>
    ELSE LET m == CHOOSE x \in S : \A y \in S : x <= y
         IN  <<m>> \o SetToSortedSeq(S \ {m})

IsTimeOrdered(s) == \A i \in 1..(Len(s) - 1) : s[i].t <= s[i + 1].t

(* The non-decreasing sequences of n timestamps. *)
SortedStamps(stamps, n) ==
    {ts \in [1..n -> stamps] : \A i \in 1..(n - 1) : ts[i] <= ts[i + 1]}

Dataset(ts, vs) == [i \in DOMAIN ts |-> [t |-> ts[i], v |-> vs[i]]]

(* Every time-ordered dataset of at most n rows. *)
TimeOrdered(stamps, vals, n) ==
    UNION {{Dataset(ts, vs) : ts \in SortedStamps(stamps, k), vs \in [1..k -> vals]} :
           k \in 0..n}

(***************************************************************************)
(* Calendar of the model.  Tick 0 is Wednesday 2016-08-31 00:00, the month *)
(* in which the meter data starts; day 0 is in August and the days after   *)
(* it are in September.  The index is taken to have a resolution finer     *)
(* than a day, as the meter readings have.                                 *)
(***************************************************************************)
TicksPerDay == 24 * TicksPerHour

Day(t) == t \div TicksPerDay

(* index.time, as ticks since midnight *)
TimeOfDay(t) == t % TicksPerDay

(* index.weekday: 0 = Mon, 6 = Sun *)
weekday(t) == (Day(t) + 2) % 7

(* index.month: 1 = Jan, 12 = Dec *)
month(t) == IF Day(t) = 0 THEN 8 ELSE 9

(***************************************************************************)
(* Values a call can produce: a dataset, None, or a raised exception.      *)
(***************************************************************************)
Frame(rows) == [kind |-> "frame", rows |-> rows]

NoneValue == [kind |-> "None"]

Raise(exc) == [kind |-> "raise", exc |-> exc]

(* df.sort_index(), as a stable insertion sort on the timestamp. *)
RECURSIVE InsertByT(_, _)
InsertByT(sorted, r) ==
    IF sorted = <<>> THEN <<r>>
    ELSE IF Head(sorted).t <= r.t THEN <<Head(sorted)>> \o InsertByT(Tail(sorted), r)
    ELSE <<r>> \o sorted

RECURSIVE sort_index(_)
sort_index(rows) ==
    IF rows = <<>> THEN <<>>
    ELSE InsertByT(sort_index(SubSeq(rows, 1, Len(rows) - 1)), rows[Len(rows)])

(* pd.concat(objs): None entries are dropped silently; with nothing left to
   concatenate it raises ValueError. *)
RECURSIVE ConcatRows(_)
ConcatRows(objs) ==
    IF objs = <<>> THEN <<>>
    ELSE (IF Head(objs).kind = "frame" THEN Head(objs).rows ELSE <<>>)
            \o ConcatRows(Tail(objs))

pd_concat(objs) ==
    IF \A i \in DOMAIN objs : objs[i].kind = "None"
    THEN Raise("ValueError")
    ELSE Frame(ConcatRows(objs))

(***************************************************************************)
(* range_token_df and data_in_range                                        *)
(*                                                                         *)
(* A range token is a calendar label, here a date [kind |-> "label", day], *)
(* or a pair [kind |-> "pair", start, stop] of timestamps, either of which *)
(* may be None.  A date range is a token or [kind |-> "list", tokens].     *)
(***************************************************************************)
Label(d) == [kind |-> "label", day |-> d]

Pair(a, b) == [kind |-> "pair", start |-> a, stop |-> b]

List(toks) == [kind |-> "list", tokens |-> toks]

LabelFirst(token) == token.day * TicksPerDay

LabelLast(token) == token.day * TicksPerDay + TicksPerDay - 1

(* data[token] for a date string on a time-ordered index raises KeyError
   when the whole date lies before the first or after the last timestamp
   of a non-empty index, and otherwise selects the rows of that date. *)
LabelKeyError(d, token) ==
    /\ d # <<>>
    /\ \/ LabelLast(token) < d[1].t
       \/ LabelFirst(token) > d[Len(d)].t

LabelRows(d, token) ==
    SelectSeq(d, LAMBDA r : LabelFirst(token) <= r.t /\ r.t <= LabelLast(token))

(* data[slice(start, stop)]: both ends inclusive, None is open. *)
SliceRows(d, token) ==
    SelectSeq(d, LAMBDA r : /\ (token.start = None \/ token.start <= r.t)
                            /\ (token.stop = None \/ r.t <= token.stop))

range_token_df(d, token) ==
    IF token.kind = "label"
    THEN IF LabelKeyError(d, token) THEN NoneValue ELSE Frame(LabelRows(d, token))
    ELSE Frame(SliceRows(d, token))

(* What range_token_df prints for the token. *)
range_token_print(d, token) ==
    IF token.kind = "label" /\ LabelKeyError(d, token) THEN <<token>> ELSE <<>>

data_in_range(d, d_range) ==
    IF d_range.kind = "list"
    THEN LET c == pd_concat([i \in DOMAIN d_range.tokens |->
                                range_token_df(d, d_range.tokens[i])])
         IN  IF c.kind = "frame" THEN Frame(sort_index(c.rows)) ELSE c
    ELSE range_token_df(d, d_range)

RECURSIVE PrintAll(_, _)
PrintAll(d, toks) ==
    IF toks = <<>> THEN <<>>
    ELSE range_token_print(d, Head(toks)) \o PrintAll(d, Tail(toks))

data_in_range_print(d, d_range) ==
    IF d_range.kind = "list" THEN PrintAll(d, d_range.tokens)
    ELSE range_token_print(d, d_range)

(***************************************************************************)
(* time_filter                                                             *)
(*                                                                         *)
(* kwds is a function whose domain is the set of keywords given.  times is *)
(* a window [kind |-> "window", start, end] in ticks since midnight, or    *)
(* [kind |-> "list", windows].                                             *)
(***************************************************************************)
Window(a, b) == [kind |-> "window", start |-> a, end |-> b]

(* out.between_time(start, end): both ends inclusive, wrapping past
   midnight when start is after end. *)
between_time(rows, w) ==
    SelectSeq(rows, LAMBDA r :
        IF w.start <= w.end
        THEN w.start <= TimeOfDay(r.t) /\ TimeOfDay(r.t) <= w.end
        ELSE w.start <= TimeOfDay(r.t) \/ TimeOfDay(r.t) <= w.end)

RECURSIVE ConcatWindows(_, _)
ConcatWindows(rows, ws) ==
    IF ws = <<>> THEN <<>>
    ELSE between_time(rows, Head(ws)) \o ConcatWindows(rows, Tail(ws))

times_stage(rows, d_range) ==
    IF d_range.kind = "list"
    THEN Frame(sort_index(ConcatWindows(rows, d_range.windows)))
    ELSE Frame(between_time(rows, d_range))

(* out.drop(labels, errors='ignore'): every row whose index label is among
   the labels goes; labels that are not in the index are ignored. *)
drop(rows, labels) == SelectSeq(rows, LAMBDA r : r.t \notin labels)

(* One stage of time_filter: skipped when its keyword is absent or an
   earlier stage raised; a method call on None raises AttributeError;
   otherwise the stage's result on the rows of the working set. *)
Stage(prev, present, applied) ==
    IF prev.kind = "raise" \/ ~present THEN prev
    ELSE IF prev.kind = "None" THEN Raise("AttributeError")
    ELSE applied

(* The working set when the blacklist stage is reached. *)
working_set(d, kwds) ==
    LET has(k) == k \in DOMAIN kwds
        s1 == IF has("include") THEN data_in_range(d, kwds.include) ELSE Frame(d)
        s2 == Stage(s1, has("times"), times_stage(s1.rows, kwds.times))
        s3 == Stage(s2, has("daysofweek"),
                    Frame(SelectSeq(s2.rows,
                                    LAMBDA r : weekday(r.t) \in kwds.daysofweek)))
        s4 == Stage(s3, has("months"),
                    Frame(SelectSeq(s3.rows, LAMBDA r : month(r.t) \in kwds.months)))
    IN  s4

blacklist_stage_on_out(d, out, blacklist) ==
    LET b == data_in_range(out, blacklist)
    IN  IF b.kind = "raise" THEN b
        ELSE IF b.kind = "None" THEN Raise("AttributeError")
        ELSE Frame(drop(out, {r.t : r \in Range(b.rows)}))

blacklist_stage(d, out, blacklist) ==
    LET b == data_in_range(d, blacklist)
    IN  IF b.kind = "raise" THEN b
        ELSE IF b.kind = "None" THEN Raise("AttributeError")
        ELSE Frame(drop(out, {r.t : r \in Range(b.rows)}))

time_filter(d, kwds) ==
    LET out == working_set(d, kwds)
    IN  Stage(out, "blacklist" \in DOMAIN kwds,
              blacklist_stage(d, out.rows, kwds.blacklist))

(* What a call of time_filter prints: the diagnostics of the include range
   and, when the blacklist stage gets to resolve its range, of that one. *)
time_filter_print(d, kwds) ==
    LET w == working_set(d, kwds)
    IN  (IF "include" \in DOMAIN kwds THEN data_in_range_print(d, kwds.include)
         ELSE <<>>)
        \o (IF "blacklist" \in DOMAIN kwds /\ w.kind = "frame"
            THEN data_in_range_print(d, kwds.blacklist) ELSE <<>>)

(***************************************************************************)
(* Inputs of the filtering operations.                                     *)
(***************************************************************************)
DaySlots == {0, 1}

FilterStamps == {d * TicksPerDay + s : d \in 0..MaxDay, s \in DaySlots}

FilterData == TimeOrdered(FilterStamps, {1}, FilterLen)

PairBounds == {None} \cup {d * TicksPerDay : d \in 1..MaxDay}

Labels == {Label(d) : d \in 0..(MaxDay + 1)}

Tokens == Labels \cup {Pair(a, b) : a, b \in PairBounds}

DateRanges ==
    Tokens \cup {List(<<x>>) : x \in Tokens} \cup {List(<<x, y>>) : x, y \in Tokens}

Windows == {Window(a, b) : a, b \in DaySlots}

TimesArgs ==
    Windows \cup {[kind |-> "list", windows |-> <<x, y>>] : x, y \in Windows}

DowArgs == SUBSET {weekday(d * TicksPerDay) : d \in 0..MaxDay} \ {{}}

MonthArgs == SUBSET {8, 9} \ {{}}

(* The keyword sets a field can contribute: absent, or one of its values. *)
Opt(name, values) == {<<>>} \cup {name :> x : x \in values}

FilterSpecs ==
    {("include" :> r) @@ ("blacklist" :> r) : r \in DateRanges}
    \cup {i @@ b : i \in Opt("include", Tokens), b \in Opt("blacklist", DateRanges)}
    \cup {i @@ b : i \in Opt("include", DateRanges), b \in Opt("blacklist", Tokens)}
    \cup {t @@ w @@ m @@ b : t \in Opt("times", TimesArgs),
                            w \in Opt("daysofweek", DowArgs),
                            m \in Opt("months", MonthArgs),
                            b \in Opt("blacklist", Labels)}

InitFilter ==
    /\ data \in FilterData
    /\ npDivide = "warn"
    /\ stdout = <<>>
    /\ op = "none"
    /\ args = <<>>
    /\ result = <<>>

RangeTokenDf ==
    /\ op = "none"
    /\ \E token \in Tokens :
        /\ op' = "range_token_df"
        /\ args' = [token |-> token]
        /\ result' = range_token_df(data, token)
        /\ stdout' = stdout \o range_token_print(data, token)
    /\ UNCHANGED <<data, npDivide>>

DataInRange ==
    /\ op = "none"
    /\ \E d_range \in DateRanges :
        /\ op' = "data_in_range"
        /\ args' = [d_range |-> d_range]
        /\ result' = data_in_range(data, d_range)
        /\ stdout' = stdout \o data_in_range_print(data, d_range)
    /\ UNCHANGED <<data, npDivide>>

TimeFilter ==
    /\ op = "none"
    /\ \E kwds \in FilterSpecs :
        /\ op' = "time_filter"
        /\ args' = [kwds |-> kwds]
        /\ result' = time_filter(data, kwds)
        /\ stdout' = stdout \o time_filter_print(data, kwds)
    /\ UNCHANGED <<data, npDivide>>

NextFilter == RangeTokenDf \/ DataInRange \/ TimeFilter

SpecFilter == InitFilter /\ [][NextFilter]_vars

(***************************************************************************)
(* Properties of range resolution and time_filter.                         *)
(***************************************************************************)
TokensOf(d_range) == IF d_range.kind = "list" THEN d_range.tokens ELSE <<d_range>>

(* Timestamp t lies in the span the token denotes. *)
InToken(token, t) ==
    IF token.kind = "label" THEN Day(t) = token.day
    ELSE /\ (token.start = None \/ token.start <= t)
         /\ (token.stop = None \/ t <= token.stop)

(* The timestamps of d that lie in some token of the date range. *)
StampsInRange(d, d_range) ==
    {d[i].t : i \in {j \in DOMAIN d :
        \E k \in DOMAIN TokensOf(d_range) : InToken(TokensOf(d_range)[k], d[j].t)}}

RECURSIVE UnionOfTokens(_, _)
UnionOfTokens(d, toks) ==
    IF toks = <<>> THEN <<>>
    ELSE SelectSeq(d, LAMBDA r : InToken(Head(toks), r.t)) \o UnionOfTokens(d, Tail(toks))

MentionsMissingLabel(d, d_range) ==
    \E k \in DOMAIN TokensOf(d_range) :
        /\ TokensOf(d_range)[k].kind = "label"
        /\ LabelKeyError(d, TokensOf(d_range)[k])

(* C3: a label that matches no row makes range_token_df report a
   diagnostic and return an empty result; data_in_range over a token list
   then returns the sorted union of the tokens that resolved, and
   time_filter with such a label as or inside its include or blacklist
   still returns a filtered dataset. *)
C3_MissingLabelIsAbsorbed ==
    /\ (op = "range_token_df" /\ args.token.kind = "label"
            /\ LabelRows(data, args.token) = <<>>)
          => result = Frame(<<>>)
    /\ (op = "range_token_df" /\ args.token.kind = "label"
            /\ LabelKeyError(data, args.token))
          => stdout = <<args.token>>
    /\ (op = "data_in_range" /\ args.d_range.kind = "list")
          => result = Frame(sort_index(UnionOfTokens(data, args.d_range.tokens)))
    /\ op = "time_filter" => result.kind = "frame"

(* The part of C3 the code does provide: a missing label inside a list in
   which some other token resolves is reported and skipped. *)
C3_MissingLabelInListIsSkipped ==
    (/\ op = "data_in_range"
     /\ args.d_range.kind = "list"
     /\ \E k \in DOMAIN args.d_range.tokens :
           ~MentionsMissingLabel(data, args.d_range.tokens[k]))
        => /\ result = Frame(sort_index(UnionOfTokens(data, args.d_range.tokens)))
           /\ stdout = SelectSeq(args.d_range.tokens,
                                 LAMBDA x : MentionsMissingLabel(data, x))

(* C4: the blacklist is resolved against the original dataset; the output
   holds no row whose timestamp is in the resolved blacklist and keeps every
   other row of the working set; blacklisted timestamps that are not in the
   working set cause no error. *)
C4_BlacklistAgainstOriginal ==
    (op = "time_filter" /\ "blacklist" \in DOMAIN args.kwds)
        => /\ result.kind = "frame" =>
                result.rows =
                    SelectSeq(working_set(data, args.kwds).rows,
                              LAMBDA r : r.t \notin StampsInRange(data, args.kwds.blacklist))
           /\ (/\ working_set(data, args.kwds).kind = "frame"
               /\ data_in_range(data, args.kwds.blacklist).kind = "frame")
                  => result.kind = "frame"

(* An include and a blacklist that overlap: a row is removed, and a
   blacklisted timestamp is missing from the working set. *)
C4_Witness ==
    /\ op = "time_filter"
    /\ {"include", "blacklist"} \subseteq DOMAIN args.kwds
    /\ args.kwds.include # args.kwds.blacklist
    /\ working_set(data, args.kwds).kind = "frame"
    /\ result.kind = "frame"
    /\ Len(result.rows) < Len(working_set(data, args.kwds).rows)
    /\ \E t \in StampsInRange(data, args.kwds.blacklist) :
          \A i \in DOMAIN working_set(data, args.kwds).rows :
              working_set(data, args.kwds).rows[i].t # t

(* A working set narrowed by times, weekdays or months that still holds a
   blacklisted row and a row that stays. *)
C4_WitnessNarrowed ==
    /\ op = "time_filter"
    /\ "blacklist" \in DOMAIN args.kwds
    /\ DOMAIN args.kwds \cap {"times", "daysofweek", "months"} # {}
    /\ result.kind = "frame"
    /\ working_set(data, args.kwds).rows # data
    /\ Len(result.rows) >= 1
    /\ Len(result.rows) < Len(working_set(data, args.kwds).rows)

(* C9: time_filter(D, include=R, blacklist=R) is empty for every date
   range R. *)
C9_IncludeEqualsBlacklistIsEmpty ==
    (/\ op = "time_filter"
     /\ DOMAIN args.kwds = {"include", "blacklist"}
     /\ args.kwds.include = args.kwds.blacklist)
        => result = Frame(<<>>)

(* C9 restricted to the ranges that resolve on D. *)
C9_EmptyWhenRangeResolves ==
    (/\ op = "time_filter"
     /\ DOMAIN args.kwds = {"include", "blacklist"}
     /\ args.kwds.include = args.kwds.blacklist
     /\ data_in_range(data, args.kwds.include).kind = "frame")
        => result = Frame(<<>>)

C9_WitnessOverlap ==
    /\ op = "time_filter"
    /\ DOMAIN args.kwds = {"include", "blacklist"}
    /\ args.kwds.include = args.kwds.blacklist
    /\ args.kwds.include.kind = "list"
    /\ data_in_range(data, args.kwds.include).kind = "frame"
    /\ Len(data_in_range(data, args.kwds.include).rows) > Len(data)

(***************************************************************************)
(* consecutives and trapz                                                  *)
(***************************************************************************)
TimedeltaMax == 2147483647

(* dates.diff(): NaT in the first position, then successive differences. *)
diff(dates) ==
    [i \in DOMAIN dates |->
        IF i = 1 THEN [nat |-> TRUE, d |-> 0]
        ELSE [nat |-> FALSE, d |-> dates[i] - dates[i - 1]]]

(* s.cumsum() *)
cumsum(s) == [i \in DOMAIN s |-> SumSeq(SubSeq(s, 1, i))]

(* data.groupby(groups): one group per distinct key, in ascending key
   order, each holding the rows carrying that key in their original order. *)
groupby(d, groups) ==
    LET keys == SetToSortedSeq(Range(groups))
    IN  [k \in DOMAIN keys |->
            [key  |-> keys[k],
             rows |-> TakeWhere(d, [i \in DOMAIN d |-> groups[i] = keys[k]], 1)]]

consecutives_ge(d, threshold) ==
    LET dates      == [i \in DOMAIN d |-> d[i].t]
        dd         == diff(dates)
        indicators == [i \in DOMAIN d |-> ~dd[i].nat /\ dd[i].d >= threshold]
        groups     == cumsum([i \in DOMAIN d |-> IF indicators[i] THEN 1 ELSE 0])
    IN  groupby(d, groups)

consecutives(d, threshold) ==
    LET dates      == [i \in DOMAIN d |-> d[i].t]
        dd         == diff(dates)
        indicators == [i \in DOMAIN d |-> ~dd[i].nat /\ dd[i].d > threshold]
        groups     == cumsum([i \in DOMAIN d |-> IF indicators[i] THEN 1 ELSE 0])
    IN  groupby(d, groups)

(* np.trapz(x, x.index) is sum(d * (y[1:] + y[:-1]) / 2.0) with d the
   timedelta64[ns] differences of the index.  A tick is an even number of
   nanoseconds, so the halving is exact; the sum is kept here in half
   ticks, and the cast to timedelta64[h] is the division of those half
   ticks by the half ticks of an hour, rounded down. *)
np_trapz(x) ==
    SumSeq([i \in 1..(Len(x) - 1) |-> (x[i + 1].t - x[i].t) * (x[i].v + x[i + 1].v)])

approx_kwh(x) == np_trapz(x) \div (2 * TicksPerHour)

trapz_total_then_cast(d, offset) ==
    LET off     == IF offset = None THEN TimedeltaMax ELSE offset
        grouped == consecutives(d, off)
    IN  SumSeq([g \in DOMAIN grouped |-> np_trapz(grouped[g].rows)])
            \div (2 * TicksPerHour)

trapz(d, offset) ==
    LET off     == IF offset = None THEN TimedeltaMax ELSE offset
        grouped == consecutives(d, off)
    IN  SumSeq([g \in DOMAIN grouped |-> approx_kwh(grouped[g].rows)])

(* Every time-ordered dataset of at most MaxLen readings. *)
InitEnergy ==
    /\ \E n \in 0..MaxLen :
          \E ts \in SortedStamps(0..MaxTime, n), vs \in [1..n -> 0..MaxVal] :
              data = Dataset(ts, vs)
    /\ npDivide = "warn"
    /\ stdout = <<>>
    /\ op = "none"
    /\ args = <<>>
    /\ result = <<>>

Consecutives ==
    /\ op = "none"
    /\ \E threshold \in 0..MaxThreshold :
        /\ op' = "consecutives"
        /\ args' = [threshold |-> threshold]
        /\ result' = consecutives(data, threshold)
    /\ UNCHANGED <<data, npDivide, stdout>>

Trapz ==
    /\ op = "none"
    /\ \E offset \in {None} \cup 0..MaxThreshold :
        /\ op' = "trapz"
        /\ args' = [offset |-> offset]
        /\ result' = trapz(data, offset)
    /\ UNCHANGED <<data, npDivide, stdout>>

NextEnergy == Consecutives \/ Trapz

SpecEnergy == InitEnergy /\ [][NextEnergy]_vars

(***************************************************************************)
(* Properties of consecutives and trapz.                                   *)
(***************************************************************************)
Gap(d, i) == d[i + 1].t - d[i].t

RECURSIVE Flatten(_)
Flatten(groups) ==
    IF groups = <<>> THEN <<>> ELSE Head(groups).rows \o Flatten(Tail(groups))

(* The positions of d at which a run starts: the first row, and every row
   further than threshold from its predecessor. *)
RunStarts(d, threshold) ==
    {i \in DOMAIN d : i = 1 \/ Gap(d, i - 1) > threshold}

(* The last position of the run that starts at position a. *)
RunEnd(d, threshold, a) ==
    CHOOSE b \in a..Len(d) :
        /\ \A i \in (a + 1)..b : i \notin RunStarts(d, threshold)
        /\ b = Len(d) \/ (b + 1) \in RunStarts(d, threshold)

(* Twice the area, in tick units, under the rows a..b of d. *)
RECURSIVE Area2(_, _, _)
Area2(d, a, b) ==
    IF a >= b THEN 0
    ELSE Gap(d, a) * (d[a].v + d[a + 1].v) + Area2(d, a + 1, b)

RECURSIVE SumOverStarts(_, _, _)
SumOverStarts(d, threshold, starts) ==
    IF starts = {} THEN 0
    ELSE LET a == CHOOSE x \in starts : TRUE
         IN  Area2(d, a, RunEnd(d, threshold, a)) \div (2 * TicksPerHour)
                + SumOverStarts(d, threshold, starts \ {a})

EffectiveThreshold == IF args.offset = None THEN MaxTime + 1 ELSE args.offset

(* C1: trapz(D, threshold) is the sum over the runs of D of each run's own
   trapezoidal integral truncated to whole hours; no trapezoid across a gap
   larger than the threshold contributes.  Two points one hour apart with
   the same value v give v, and five hourly readings of 2 give 8. *)
C1_TrapzSumsRunIntegrals ==
    /\ op = "trapz" =>
          result = SumOverStarts(data, EffectiveThreshold,
                                 RunStarts(data, EffectiveThreshold))
    /\ \A v \in 0..MaxVal :
          trapz(<<[t |-> 1, v |-> v], [t |-> 1 + TicksPerHour, v |-> v]>>, None) = v
    /\ trapz([i \in 1..5 |-> [t |-> (i - 1) * TicksPerHour, v |-> 2]], None) = 8

(* Two runs, each with a fractional number of hours of area. *)
C1_Witness ==
    /\ op = "trapz"
    /\ args.offset # None
    /\ Cardinality(RunStarts(data, args.offset)) = 2
    /\ \A a \in RunStarts(data, args.offset) :
          Area2(data, a, RunEnd(data, args.offset, a)) % (2 * TicksPerHour) # 0
    /\ \E i \in 1..(Len(data) - 1) :
          Gap(data, i) > args.offset /\ data[i].v + data[i + 1].v > 0

(* C2: consecutives(D, threshold) partitions D exactly into runs numbered
   0, 1, 2, ... in timestamp order; gaps inside a run are at most the
   threshold and the gap between two successive runs exceeds it; an empty D
   gives no run and a single-row D gives one run of one row. *)
C2_ConsecutivesPartition ==
    op = "consecutives" =>
        /\ Flatten(result) = data
        /\ \A k \in DOMAIN result :
              /\ result[k].key = k - 1
              /\ Len(result[k].rows) >= 1
              /\ \A i \in 1..(Len(result[k].rows) - 1) :
                    Gap(result[k].rows, i) <= args.threshold
        /\ \A k \in 1..(Len(result) - 1) :
              result[k + 1].rows[1].t - result[k].rows[Len(result[k].rows)].t
                  > args.threshold
        /\ (data = <<>> => Len(result) = 0)
        /\ (Len(data) = 1 => Len(result) = 1 /\ Len(result[1].rows) = 1)

C2_Witness ==
    /\ op = "consecutives"
    /\ Len(result) >= 2
    /\ \E k \in DOMAIN result :
          /\ Len(result[k].rows) >= 2
          /\ Gap(result[k].rows, 1) = args.threshold
          /\ args.threshold > 0

(***************************************************************************)
(* lognorm_params and adjust_sample                                        *)
(*                                                                         *)
(* Sample values are 0 or a power of two, so that the natural logarithm of *)
(* a value 2^k is k times ln 2.  Logarithms are kept in quarters of ln 2   *)
(* (log 2^k is 4k), which keeps both medians taken by mad whole.           *)
(***************************************************************************)
(* The modes np.seterr accepts. *)
SeterrModes == {"ignore", "warn", "raise", "call", "print", "log"}

(* np.seterr(divide=mode): the new process-wide divide policy. *)
np_seterr(current, mode) == mode

RECURSIVE Log2(_)
Log2(v) == IF v <= 1 THEN 0 ELSE 1 + Log2(v \div 2)

(* np.log(series), then log_data[np.isneginf(log_data)] = 0 *)
log_data(series) ==
    [i \in DOMAIN series |-> IF series[i].v = 0 THEN 0 ELSE 4 * Log2(series[i].v)]

RECURSIVE InsertInt(_, _)
InsertInt(sorted, x) ==
    IF sorted = <<>> THEN <<x>>
    ELSE IF Head(sorted) <= x THEN <<Head(sorted)>> \o InsertInt(Tail(sorted), x)
    ELSE <<x>> \o sorted

RECURSIVE SortInts(_)
SortInts(s) ==
    IF s = <<>> THEN <<>>
    ELSE InsertInt(SortInts(SubSeq(s, 1, Len(s) - 1)), s[Len(s)])

(* Series.median() of a non-empty series *)
median(s) ==
    LET o == SortInts(s)
        n == Len(s)
    IN  IF n % 2 = 1 THEN o[(n + 1) \div 2]
        ELSE (o[n \div 2] + o[n \div 2 + 1]) \div 2

Abs(x) == IF x < 0 THEN -x ELSE x

mad(s) == median([i \in DOMAIN s |-> Abs(s[i] - median(s))])

SeqMin(s) == CHOOSE x \in Range(s) : \A y \in Range(s) : x <= y

SeqMax(s) == CHOOSE x \in Range(s) : \A y \in Range(s) : x >= y

(* The divide policy lognorm_params leaves behind: ignore around the
   logarithm, then warn. *)
lognorm_params_seterr(current) ==
    LET during == np_seterr(current, "ignore")
    IN  np_seterr(during, "warn")

(* stats.gaussian_kde raises on fewer than two points and on a sample with
   no spread.  The shape is mad * 1.4826, kept as mad: it is positive
   exactly when mad is.  The scale is e^est_mu, where the bounded
   minimisation puts est_mu between the least and the greatest logarithm;
   it is kept as those bounds. *)
lognorm_params(series) ==
    LET ld == log_data(series)
    IN  IF Len(series) < 2 THEN Raise("ValueError")
        ELSE IF SeqMin(ld) = SeqMax(ld) THEN Raise("LinAlgError")
        ELSE [kind |-> "params", shape |-> mad(ld), loc |-> 0,
              scale |-> [lo |-> SeqMin(ld), hi |-> SeqMax(ld)]]

(* np.linspace(start, stop, num) on the fractions start and stop of equal
   denominator, as fractions. *)
np_linspace(start, stop, num) ==
    IF num = 1 THEN <<start>>
    ELSE [i \in 1..num |->
            [num |-> start.num * (num - 1) + (i - 1) * (stop.num - start.num),
             den |-> start.den * (num - 1)]]

(* q_step = 1/(size + 2*buffer - 1), as the denominator of the fraction *)
q_step_den_plain(size, buffer) == size + 2 * buffer

q_step_den(size, buffer) == size + 2 * buffer - 1

(* np.linspace(buffer*q_step, 1 - buffer*q_step, series.size) *)
q_array(size, buffer) ==
    LET m == q_step_den(size, buffer)
    IN  np_linspace([num |-> buffer, den |-> m], [num |-> m - buffer, den |-> m], size)

(* stats.lognorm.ppf(q, shape, loc, scale): NaN when the shape is not
   positive or q is outside [0, 1]; otherwise scale * exp(shape * z(q)),
   strictly increasing in q from 0 at q = 0 to infinity at q = 1.  The value
   is kept as the quantile it is the image of. *)
lognorm_ppf(q, fit) ==
    IF fit.shape <= 0 \/ q.num < 0 \/ q.num > q.den
    THEN [nan |-> TRUE, num |-> q.num, den |-> q.den]
    ELSE [nan |-> FALSE, num |-> q.num, den |-> q.den]

(* The orders series.sort_values() may return: ascending in value, rows of
   equal value in any order. *)
SortOrders(series) ==
    {p \in Permutations(DOMAIN series) :
        \A i, j \in DOMAIN series : i < j => series[p[i]].v <= series[p[j]].v}

adjust_sample(series, buffer, order) ==
    LET fit_params == lognorm_params(series)
        size == Len(series)
    IN  IF fit_params.kind = "raise" THEN fit_params
        ELSE IF q_step_den(size, buffer) = 0 THEN Raise("ZeroDivisionError")
        ELSE LET s_sorted  == [i \in 1..size |-> series[order[i]]]
                 q         == q_array(size, buffer)
                 quantiles == sort_index([i \in 1..size |->
                                             [t |-> s_sorted[i].t, v |-> q[i]]])
             IN  Frame([i \in 1..size |->
                          [t |-> quantiles[i].t,
                           v |-> lognorm_ppf(quantiles[i].v, fit_params)]])

SampleVals == {0} \cup {2 ^ k : k \in 0..MaxExp}

(* Samples of at most FitLen values, indexed by distinct labels in any
   order. *)
FitSamples ==
    UNION {{[i \in 1..n |-> [t |-> p[i], v |-> x[i]]] :
                p \in Permutations(1..n), x \in [1..n -> SampleVals]} :
           n \in 0..FitLen}

InitFit ==
    /\ data \in FitSamples
    /\ npDivide \in SeterrModes
    /\ stdout = <<>>
    /\ op = "none"
    /\ args = <<>>
    /\ result = <<>>

LognormParams ==
    /\ op = "none"
    /\ op' = "lognorm_params"
    /\ args' = [divide_before |-> npDivide]
    /\ result' = lognorm_params(data)
    /\ npDivide' = lognorm_params_seterr(npDivide)
    /\ UNCHANGED <<data, stdout>>

AdjustSample ==
    /\ op = "none"
    /\ \E buffer \in 0..MaxBuffer, order \in SortOrders(data) :
        /\ op' = "adjust_sample"
        /\ args' = [buffer |-> buffer, order |-> order, divide_before |-> npDivide]
        /\ result' = adjust_sample(data, buffer, order)
    /\ npDivide' = lognorm_params_seterr(npDivide)
    /\ UNCHANGED <<data, stdout>>

NextFit == LognormParams \/ AdjustSample

SpecFit == InitFit /\ [][NextFit]_vars

(***************************************************************************)
(* Properties of lognorm_params and adjust_sample.                         *)
(***************************************************************************)
(* The adjusted value the result holds for index label t. *)
Adjusted(t) ==
    LET i == CHOOSE k \in DOMAIN result.rows : result.rows[k].t = t
    IN  result.rows[i].v

(* a < b for two adjusted values; NaN compares false with everything. *)
AdjLess(a, b) == ~a.nan /\ ~b.nan /\ a.num * b.den < b.num * a.den

(* C5: adjust_sample is rank-preserving: sample[i] < sample[j] implies
   adjusted[i] < adjusted[j], strictly, for every sample on which the fit
   returns parameters, samples with many tied values included. *)
C5_RankPreserving ==
    (op = "adjust_sample" /\ result.kind = "frame")
        => \A i, j \in DOMAIN data :
              data[i].v < data[j].v => AdjLess(Adjusted(data[i].t), Adjusted(data[j].t))

(* C5 on the samples whose fitted shape is positive. *)
C5_RankPreservingPositiveShape ==
    (op = "adjust_sample" /\ result.kind = "frame" /\ lognorm_params(data).shape > 0)
        => \A i, j \in DOMAIN data :
              data[i].v < data[j].v => AdjLess(Adjusted(data[i].t), Adjusted(data[j].t))

(* C6: adjust_sample returns a series with the index entries of the input
   in the order of the input, also when that index is not ascending. *)
C6_SameIndexOrder ==
    (op = "adjust_sample" /\ result.kind = "frame")
        => [i \in DOMAIN result.rows |-> result.rows[i].t]
              = [i \in DOMAIN data |-> data[i].t]

(* C6 as the code has it: the same index entries, in ascending order. *)
C6_SameIndexAscending ==
    (op = "adjust_sample" /\ result.kind = "frame")
        => /\ IsTimeOrdered(result.rows)
           /\ {result.rows[i].t : i \in DOMAIN result.rows}
                 = {data[i].t : i \in DOMAIN data}
           /\ Len(result.rows) = Len(data)

(* The quantile of every sorted rank is (buffer + i)/(n + 2*buffer - 1),
   the quantiles increase strictly with the rank and lie strictly inside
   (0, 1). *)
QuantilesAsClaimed ==
    LET n == Len(data)
        m == n + 2 * args.buffer - 1
        q(i) == Adjusted(data[args.order[i]].t)
    IN  /\ \A i \in 1..n : q(i).num * m = (args.buffer + i - 1) * q(i).den
        /\ \A i \in 1..(n - 1) : q(i).num * q(i + 1).den < q(i + 1).num * q(i).den
        /\ \A i \in 1..n : 0 < q(i).num /\ q(i).num < q(i).den

(* C7 as amended: for a buffer of at least 1, the quantile adjust_sample
   assigns to sorted rank i is exactly (buffer + i)/(n + 2*buffer - 1); the
   quantiles increase strictly with the rank and lie strictly inside
   (0, 1). *)
C7_QuantilesPositiveBuffer ==
    (op = "adjust_sample" /\ result.kind = "frame" /\ args.buffer >= 1)
        => QuantilesAsClaimed

C7_Witness ==
    /\ op = "adjust_sample"
    /\ result.kind = "frame"
    /\ args.buffer >= 1
    /\ Len(data) >= 3
    /\ \E i \in DOMAIN data : data[i].t # i

(* C7: for a sample of size n >= 1 and any buffer, the quantile of sorted
   rank i is exactly (buffer + i)/(n + 2*buffer - 1), strictly increasing in
   the rank and strictly inside (0, 1). *)
C7_QuantilesAnyBuffer ==
    (op = "adjust_sample" /\ result.kind = "frame") => QuantilesAsClaimed

(* C10: on every exit path of lognorm_params the process-wide divide
   policy is what it was before the call. *)
C10_DividePolicyRestored ==
    op \in {"lognorm_params", "adjust_sample"} => npDivide = args.divide_before

(***************************************************************************)
(* intersect                                                               *)
(***************************************************************************)
(* index1.intersection(index2) of two time-ordered indexes: the labels
   found in both, each once, in ascending order. *)
index_intersection_left(d1, d2) == SetToSortedSeq({d1[i].t : i \in DOMAIN d1})

index_intersection(d1, d2) ==
    SetToSortedSeq({d1[i].t : i \in DOMAIN d1} \cap {d2[i].t : i \in DOMAIN d2})

(* data.loc[ixs]: for each label of ixs in turn, every row carrying it. *)
RECURSIVE loc(_, _)
loc(d, ixs) ==
    IF ixs = <<>> THEN <<>>
    ELSE SelectSeq(d, LAMBDA r : r.t = Head(ixs)) \o loc(d, Tail(ixs))

intersect(data1, data2) ==
    LET ixs == index_intersection(data1, data2)
    IN  <<Frame(loc(data1, ixs)), Frame(loc(data2, ixs))>>

IntersectData == TimeOrdered(0..MaxTime, {1}, FilterLen)

IntersectOther == TimeOrdered(0..MaxTime, {2}, FilterLen)

InitIntersect ==
    /\ data \in IntersectData
    /\ npDivide = "warn"
    /\ stdout = <<>>
    /\ op = "none"
    /\ args = <<>>
    /\ result = <<>>

Intersect ==
    /\ op = "none"
    /\ \E data2 \in {data} \cup IntersectOther :
        /\ op' = "intersect"
        /\ args' = [data2 |-> data2]
        /\ result' = intersect(data, data2)
    /\ UNCHANGED <<data, npDivide, stdout>>

NextIntersect == Intersect

SpecIntersect == InitIntersect /\ [][NextIntersect]_vars

(***************************************************************************)
(* Properties of intersect.                                                *)
(***************************************************************************)
Stamps(d) == {d[i].t : i \in DOMAIN d}

HasDuplicates(d) == Cardinality(Stamps(d)) < Len(d)

(* The two results have the same length, the number of index entries the
   two datasets share; an empty intersection gives two empty results; and
   intersect(a, a) is (a, a). *)
IntersectAsClaimed ==
    /\ result[1].kind = "frame" /\ result[2].kind = "frame"
    /\ Len(result[1].rows) = Len(result[2].rows)
    /\ Len(result[1].rows) = Cardinality(Stamps(data) \cap Stamps(args.data2))
    /\ Stamps(data) \cap Stamps(args.data2) = {}
          => result = <<Frame(<<>>), Frame(<<>>)>>
    /\ args.data2 = data => result = <<Frame(data), Frame(data)>>

(* C8 as amended: for two datasets whose indexes hold no duplicate
   timestamp, intersect returns two results of equal length, the number of
   shared index entries; an empty intersection gives two empty results;
   intersect(a, a) is (a, a). *)
C8_IntersectUniqueIndexes ==
    (op = "intersect" /\ ~HasDuplicates(data) /\ ~HasDuplicates(args.data2))
        => IntersectAsClaimed

C8_Witness ==
    /\ op = "intersect"
    /\ ~HasDuplicates(data) /\ ~HasDuplicates(args.data2)
    /\ args.data2 # data
    /\ Len(result[1].rows) >= 1
    /\ Len(result[1].rows) < Len(data)
    /\ Len(result[2].rows) < Len(args.data2)

C8_WitnessSelf ==
    /\ op = "intersect"
    /\ ~HasDuplicates(data)
    /\ args.data2 = data
    /\ Len(data) >= 2

(* C8: the same for every pair of datasets, duplicate timestamps in an
   index included. *)
C8_IntersectAnyIndexes == op = "intersect" => IntersectAsClaimed

====
